---- MODULE Spec2Model ----
(***************************************************************************)
(* Particle-Simulator: the ParticleGrid class of src/src/main.cpp          *)
(* (double-buffered falling-sand automaton with a temperature field),      *)
(* its text save format and the clock gate of GameState.                   *)
(***************************************************************************)
EXTENDS Integers, Sequences, FiniteSets, TLC

\* ------------------------------------------------------------------ bounds
\* grid dimensions (GRID_WIDTH x GRID_HEIGHT in the program, scaled down)
Width == 5
Height == 5
\* number of input calls (paint, set, clear, save, load, keys) in one run
MaxCalls == 3
\* number of frames, that is of Update() calls, in one run
MaxFrames == 2

\* ------------------------------------------------------------- cell types
Particle ==
  {"Empty", "Sand", "Water", "Lava", "Stone", "Steam", "Ice", "Acid", "Oil",
   "Fire", "Smoke", "Obsidian"}

\* the table of types and their file symbols, in the order of the source
colors ==
  << [type |-> "Empty",    symbol |-> " "],
     [type |-> "Sand",     symbol |-> "S"],
     [type |-> "Water",    symbol |-> "W"],
     [type |-> "Lava",     symbol |-> "L"],
     [type |-> "Stone",    symbol |-> "#"],
     [type |-> "Steam",    symbol |-> "T"],
     [type |-> "Ice",      symbol |-> "I"],
     [type |-> "Acid",     symbol |-> "A"],
     [type |-> "Oil",      symbol |-> "O"],
     [type |-> "Fire",     symbol |-> "F"],
     [type |-> "Smoke",    symbol |-> "M"],
     [type |-> "Obsidian", symbol |-> "B"] >>

\* enum BrushSize
BrushSize == {1, 3, 5, 7}

\* ambient temperature written by Clear and returned for outside reads
Ambient == 20

Cells == (0 .. Width - 1) \X (0 .. Height - 1)

OutOfBounds(x, y) == x < 0 \/ x >= Width \/ y < 0 \/ y >= Height

\* the cells Set refuses to write: bottom two rows, outer columns
Protected(x, y) == y >= Height - 2 \/ x = 0 \/ x = Width - 1

Max(a, b) == IF a >= b THEN a ELSE b
Min(a, b) == IF a <= b THEN a ELSE b

\* C++ integer division truncates toward zero
TruncDiv(a, b) == IF a >= 0 THEN a \div b ELSE -((-a) \div b)

VARIABLES
  grid,          \* Particle* grid: the current buffer
  nextGrid,      \* Particle* nextGrid: the next buffer
  temperature,   \* int* temperature
  isPaused,      \* GameState::isPaused
  timeSpeed,     \* GameState::timeSpeed, in twentieths (20 = 1.0f)
  frameCounter,  \* GameState::frameCounter
  pc,            \* position inside Update: "idle", "scan" or "diffuse"
  scan,          \* the cell <<x, y>> the scan loop of Update is at
  file,          \* map.txt: a sequence of lines, or NoFile
  calls,         \* number of input calls issued so far by the driver
  frames,        \* number of Update() calls issued so far by the driver
  call,          \* the latest API call of the driver and its arguments
  preTick        \* the temperature field as the latest executed tick found it

vars ==
  <<grid, nextGrid, temperature, isPaused, timeSpeed, frameCounter, pc, scan,
    file, calls, frames, call, preTick>>

NoFile == "missing"

\* a map.txt written by hand: a comment, an empty line, then data lines that
\* are longer or shorter than a row, hold a symbol of no type ("X") and put
\* other symbols than '#' on the walls and the floor
HandFile ==
  << <<"#", " ", "m", "a", "p">>,
     <<>>,
     <<"S", "S", "W", "L", "X", "T", "I", "A", "O">>,
     <<" ", "F", "M", "B">>,
     <<"W", " ", "S", "S", "S", "S", "S", "S", "S">>,
     <<"#", "S", "S", "S">>,
     <<"S", "#", "W", "W", "W", "W", "W", "W", "W">>,
     <<"S", "S", "S", "S", "S", "S", "S", "S", "S">>,
     <<"L", "L", "L", "L", "L", "L", "L", "L", "L">>,
     <<"W">> >>

\* an API call op(x, y, p, n); the arguments a call does not take are zero
Call(op, x, y, p, n) == [op |-> op, x |-> x, y |-> y, p |-> p, n |-> n]

Call0(op) == Call(op, 0, 0, "Empty", 0)

\* --------------------------------------------------------------- accessors
\* Get reading the outside as Empty
GetInEmptyOutside(g, x, y) == IF OutOfBounds(x, y) THEN "Empty" ELSE g[<<x, y>>]

GetIn(g, x, y) == IF OutOfBounds(x, y) THEN "Stone" ELSE g[<<x, y>>]

Get(x, y) == GetIn(grid, x, y)

GetTemperatureIn(t, x, y) == IF OutOfBounds(x, y) THEN Ambient ELSE t[<<x, y>>]

GetTemperature(x, y) == GetTemperatureIn(temperature, x, y)

\* Set without the test of the protected cells
SetInAnywhere(g, x, y, p) ==
  IF OutOfBounds(x, y) THEN g ELSE [g EXCEPT ![<<x, y>>] = p]

SetIn(g, x, y, p) ==
  IF OutOfBounds(x, y) THEN g
  ELSE IF Protected(x, y) THEN g
  ELSE [g EXCEPT ![<<x, y>>] = p]

SetTemperatureIn(t, x, y, temp) ==
  IF OutOfBounds(x, y) THEN t ELSE [t EXCEPT ![<<x, y>>] = temp]

SetNext(ng, x, y, p) ==
  IF OutOfBounds(x, y) THEN ng ELSE [ng EXCEPT ![<<x, y>>] = p]

\* the stamping loops shared by CreateGround and CreateGroundNext
StampGround(g) ==
  [c \in Cells |->
     IF c[2] = Height - 1 \/ c[2] = Height - 2 THEN "Stone"
     ELSE IF c[2] < Height - 1 /\ (c[1] = 0 \/ c[1] = Width - 1) THEN "Stone"
     ELSE g[c]]

CreateGround(g) == StampGround(g)

CreateGroundNext(ng) == StampGround(ng)

AllEmpty == [c \in Cells |-> "Empty"]

AllAmbient == [c \in Cells |-> Ambient]

\* Clear() without its call of CreateGround()
ClearGridNoGround == AllEmpty

\* the three arrays after Clear()
ClearGrid == CreateGround(AllEmpty)

ClearNext == AllEmpty

ClearTemperature == AllAmbient

\* the state after the constructor, map.txt being f
Constructed(f) ==
  /\ grid = CreateGround(ClearGrid)
  /\ nextGrid = ClearNext
  /\ temperature = ClearTemperature
  /\ isPaused = FALSE
  /\ timeSpeed = 20
  /\ frameCounter = 0
  /\ pc = "idle"
  /\ scan = <<1, Height - 3>>
  /\ file = f
  /\ calls = 0
  /\ frames = 0
  /\ call = Call0("ParticleGrid")
  /\ preTick = ClearTemperature

\* map.txt is missing or was written by hand
Init == \E f \in {NoFile, HandFile} : Constructed(f)

\* no map.txt yet
InitNoFile == Constructed(NoFile)

\* --------------------------------------------------------------- reactions
\* the 8 offsets <<dx, dy>> in the order of the nested dy/dx loops
NeighborOrder ==
  << <<-1, -1>>, <<0, -1>>, <<1, -1>>,
     <<-1, 0>>,             <<1, 0>>,
     <<-1, 1>>,  <<0, 1>>,  <<1, 1>> >>

CheckNeighbor(x, y, target) ==
  \E i \in 1 .. 8 :
    Get(x + NeighborOrder[i][1], y + NeighborOrder[i][2]) = target

ReplaceNeighbor(ng, x, y, target, replacement) ==
  IF ~CheckNeighbor(x, y, target) THEN ng
  ELSE
    LET first ==
          CHOOSE i \in 1 .. 8 :
            /\ Get(x + NeighborOrder[i][1], y + NeighborOrder[i][2]) = target
            /\ \A j \in 1 .. (i - 1) :
                 Get(x + NeighborOrder[j][1], y + NeighborOrder[j][2]) # target
    IN SetNext(ng, x + NeighborOrder[first][1], y + NeighborOrder[first][2],
               replacement)

\* the outcomes of the rand() calls made while one cell is processed:
\*   a    the rare draw of a reaction (rand()%20 of steam, rand()%30 of a
\*        fire beside oil)
\*   b    rand()%50 == 0 of a fire (its natural burn-out)
\*   k    which of the acid's rand()%8 draws is the first to succeed (9: none)
\*   dir  (rand()%2) ? 1 : -1
\*   gate rand()%2 == 0 of oil, rand()%4 == 0 of fire and smoke
\*   rise rand()%3 == 0 of fire and smoke
\*   dir3 (rand()%3) - 1 of smoke
\*   fade rand()%100 == 0 of steam, rand()%80 == 0 of smoke
NoDraw ==
  [a |-> FALSE, b |-> FALSE, k |-> 9, dir |-> 1, gate |-> FALSE,
   rise |-> FALSE, dir3 |-> 0, fade |-> FALSE]

Draws(p) ==
  CASE p \in {"Sand", "Water", "Lava"} ->
         {[NoDraw EXCEPT !.dir = d] : d \in {-1, 1}}
    [] p = "Steam" ->
         {[NoDraw EXCEPT !.a = a, !.dir = d, !.fade = f] :
            a \in BOOLEAN, d \in {-1, 1}, f \in BOOLEAN}
    [] p = "Acid" ->
         {[NoDraw EXCEPT !.k = k, !.dir = d] : k \in 1 .. 9, d \in {-1, 1}}
    [] p = "Oil" ->
         {[NoDraw EXCEPT !.gate = g, !.dir = d] : g \in BOOLEAN, d \in {-1, 1}}
    [] p = "Fire" ->
         {[NoDraw EXCEPT !.a = a, !.b = b, !.rise = r, !.gate = g, !.dir = d] :
            a \in BOOLEAN, b \in BOOLEAN, r \in BOOLEAN, g \in BOOLEAN,
            d \in {-1, 1}}
    [] p = "Smoke" ->
         {[NoDraw EXCEPT !.rise = r, !.dir3 = d, !.gate = g, !.fade = f] :
            r \in BOOLEAN, d \in {-1, 0, 1}, g \in BOOLEAN, f \in BOOLEAN}
    [] OTHER -> {NoDraw}

\* the acid's loop over its neighbours from NeighborOrder[i] on, m matches
\* having been dissolved so far
RECURSIVE AcidLoop(_, _, _, _, _, _)
AcidLoop(ng, x, y, i, m, k) ==
  IF i > 8 THEN [next |-> ng, consumed |-> FALSE]
  ELSE
    LET nx == x + NeighborOrder[i][1]
        ny == y + NeighborOrder[i][2]
        hit == /\ nx > 0 /\ nx < Width - 1 /\ ny > 0 /\ ny < Height - 2
               /\ Get(nx, ny) \in {"Sand", "Ice"}
        ng1 == SetNext(ng, nx, ny, "Empty")
    IN IF ~hit THEN AcidLoop(ng, x, y, i + 1, m, k)
       ELSE IF m + 1 = k
              THEN [next |-> SetNext(ng1, x, y, "Empty"), consumed |-> TRUE]
              ELSE AcidLoop(ng1, x, y, i + 1, m + 1, k)

Consumed(ng) == [next |-> ng, consumed |-> TRUE]

Declined(ng) == [next |-> ng, consumed |-> FALSE]

\* the lava converting the water but not itself
LavaReactionKeepsSelf(ng, t, x, y) ==
  IF CheckNeighbor(x, y, "Water")
    THEN Consumed(ReplaceNeighbor(ng, x, y, "Water", "Steam"))
  ELSE IF GetTemperatureIn(t, x, y) < 500
    THEN Consumed(SetNext(ng, x, y, "Stone"))
  ELSE Declined(ng)

LavaReaction(ng, t, x, y) ==
  IF CheckNeighbor(x, y, "Water")
    THEN Consumed(ReplaceNeighbor(SetNext(ng, x, y, "Obsidian"), x, y,
                                  "Water", "Steam"))
  ELSE IF GetTemperatureIn(t, x, y) < 500
    THEN Consumed(SetNext(ng, x, y, "Stone"))
  ELSE Declined(ng)

\* water that boils by its own temperature only, not beside lava or fire
WaterReactionOwnHeatOnly(ng, t, x, y) ==
  IF GetTemperatureIn(t, x, y) > 100
    THEN Consumed(SetNext(ng, x, y, "Steam"))
  ELSE IF GetTemperatureIn(t, x, y) < 0
    THEN Consumed(SetNext(ng, x, y, "Ice"))
  ELSE Declined(ng)

\* water that does not boil by its own temperature
WaterReactionNoHeat(ng, t, x, y) ==
  IF CheckNeighbor(x, y, "Lava") \/ CheckNeighbor(x, y, "Fire")
    THEN Consumed(SetNext(ng, x, y, "Steam"))
  ELSE IF GetTemperatureIn(t, x, y) < 0
    THEN Consumed(SetNext(ng, x, y, "Ice"))
  ELSE Declined(ng)

WaterReaction(ng, t, x, y) ==
  IF \/ CheckNeighbor(x, y, "Lava")
     \/ CheckNeighbor(x, y, "Fire")
     \/ GetTemperatureIn(t, x, y) > 100
    THEN Consumed(SetNext(ng, x, y, "Steam"))
  ELSE IF GetTemperatureIn(t, x, y) < 0
    THEN Consumed(SetNext(ng, x, y, "Ice"))
  ELSE Declined(ng)

IceReaction(ng, t, x, y) ==
  IF \/ GetTemperatureIn(t, x, y) > 0
     \/ CheckNeighbor(x, y, "Lava")
     \/ CheckNeighbor(x, y, "Fire")
    THEN Consumed(SetNext(ng, x, y, "Water"))
  ELSE Declined(ng)

SteamReaction(ng, t, x, y, r) ==
  IF GetTemperatureIn(t, x, y) < 50 /\ r.a
    THEN Consumed(SetNext(ng, x, y, "Water"))
  ELSE Declined(ng)

\* the fire's three rules as three separate tests, the later ones tried
\* whenever the earlier ones have not consumed the fire
FireReactionFallsThrough(ng, x, y, r) ==
  LET ng1 == IF CheckNeighbor(x, y, "Oil")
               THEN ReplaceNeighbor(ng, x, y, "Oil", "Fire")
             ELSE ng
  IN IF CheckNeighbor(x, y, "Oil") /\ r.a
       THEN Consumed(SetNext(ng1, x, y, "Smoke"))
     ELSE IF CheckNeighbor(x, y, "Water")
       THEN Consumed(ReplaceNeighbor(SetNext(ng1, x, y, "Smoke"), x, y,
                                     "Water", "Steam"))
     ELSE IF r.b
       THEN Consumed(SetNext(ng1, x, y, "Smoke"))
     ELSE Declined(ng1)

FireReaction(ng, x, y, r) ==
  IF CheckNeighbor(x, y, "Oil")
    THEN LET ng1 == ReplaceNeighbor(ng, x, y, "Oil", "Fire")
         IN IF r.a THEN Consumed(SetNext(ng1, x, y, "Smoke"))
            ELSE Declined(ng1)
  ELSE IF CheckNeighbor(x, y, "Water")
    THEN Consumed(ReplaceNeighbor(SetNext(ng, x, y, "Smoke"), x, y,
                                  "Water", "Steam"))
  ELSE IF r.b
    THEN Consumed(SetNext(ng, x, y, "Smoke"))
  ELSE Declined(ng)

OilReaction(ng, x, y) ==
  IF CheckNeighbor(x, y, "Fire") \/ CheckNeighbor(x, y, "Lava")
    THEN Consumed(SetNext(ng, x, y, "Fire"))
  ELSE Declined(ng)

\* ProcessReactions(x, y) writing into the next buffer ng under the draws r,
\* the temperature field being t
ProcessReactions(ng, t, x, y, r) ==
  LET current == Get(x, y)
  IN CASE current = "Lava"  -> LavaReaction(ng, t, x, y)
       [] current = "Water" -> WaterReaction(ng, t, x, y)
       [] current = "Ice"   -> IceReaction(ng, t, x, y)
       [] current = "Steam" -> SteamReaction(ng, t, x, y, r)
       [] current = "Fire"  -> FireReaction(ng, x, y, r)
       [] current = "Acid"  -> AcidLoop(ng, x, y, 1, 0, r.k)
       [] current = "Oil"   -> OilReaction(ng, x, y)
       [] OTHER             -> Declined(ng)

\* ---------------------------------------------------------------- movement
Liquids == {"Water", "Lava", "Acid", "Oil"}

\* falling allowed onto Obsidian as onto an Empty cell
CanMoveDownOntoObsidian(x, y) ==
  LET below == Get(x, y + 1)
      current == Get(x, y)
  IN \/ below \in {"Empty", "Obsidian"}
     \/ below = "Steam" /\ current \in Liquids

CanMoveDown(x, y) ==
  LET below == Get(x, y + 1)
      current == Get(x, y)
  IN \/ below = "Empty"
     \/ below = "Steam" /\ current \in Liquids

CanMoveSide(x, y, dir) == Get(x + dir, y) \in {"Empty", "Steam"}

\* what the origin (x, y) receives when its occupant moves onto (tx, ty)
LeaveBehind(ng, x, y, tx, ty) ==
  IF Get(tx, ty) = "Steam" THEN SetNext(ng, x, y, "Steam")
  ELSE SetNext(ng, x, y, "Empty")

\* sand that falls and otherwise runs sideways, as the liquids do
UpdateSandFlows(ng, x, y, dir) ==
  IF CanMoveDown(x, y)
    THEN LeaveBehind(SetNext(ng, x, y + 1, "Sand"), x, y, x, y + 1)
  ELSE IF CanMoveSide(x, y, dir)
    THEN SetNext(SetNext(ng, x + dir, y, "Sand"), x, y, "Empty")
  ELSE IF CanMoveSide(x, y, -dir)
    THEN SetNext(SetNext(ng, x - dir, y, "Sand"), x, y, "Empty")
  ELSE ng

\* sand written at its destination and left at its origin as well
UpdateSandLeavesCopy(ng, x, y, dir) ==
  IF CanMoveDown(x, y)
    THEN SetNext(ng, x, y + 1, "Sand")
  ELSE IF Get(x + dir, y + 1) \in {"Empty", "Steam"}
    THEN SetNext(ng, x + dir, y + 1, "Sand")
  ELSE IF Get(x - dir, y + 1) \in {"Empty", "Steam"}
    THEN SetNext(ng, x - dir, y + 1, "Sand")
  ELSE ng

UpdateSand(ng, x, y, dir) ==
  IF CanMoveDown(x, y)
    THEN LeaveBehind(SetNext(ng, x, y + 1, "Sand"), x, y, x, y + 1)
  ELSE IF Get(x + dir, y + 1) \in {"Empty", "Steam"}
    THEN LeaveBehind(SetNext(ng, x + dir, y + 1, "Sand"), x, y, x + dir, y + 1)
  ELSE IF Get(x - dir, y + 1) \in {"Empty", "Steam"}
    THEN LeaveBehind(SetNext(ng, x - dir, y + 1, "Sand"), x, y, x - dir, y + 1)
  ELSE ng

\* the common body of UpdateWater, UpdateAcid and UpdateOil for the liquid p
Flow(ng, x, y, p, dir) ==
  IF CanMoveDown(x, y)
    THEN LeaveBehind(SetNext(ng, x, y + 1, p), x, y, x, y + 1)
  ELSE IF CanMoveSide(x, y, dir)
    THEN SetNext(SetNext(ng, x + dir, y, p), x, y, "Empty")
  ELSE IF CanMoveSide(x, y, -dir)
    THEN SetNext(SetNext(ng, x - dir, y, p), x, y, "Empty")
  ELSE ng

UpdateWater(ng, x, y, dir) == Flow(ng, x, y, "Water", dir)

UpdateAcid(ng, x, y, dir) == Flow(ng, x, y, "Acid", dir)

UpdateOil(ng, x, y, gate, dir) ==
  IF gate THEN Flow(ng, x, y, "Oil", dir) ELSE ng

\* UpdateLava writes the next buffer and the temperature field
UpdateLava(ng, t, x, y, dir) ==
  LET t1 == IF CanMoveDown(x, y) THEN SetTemperatureIn(t, x, y + 1, 1000)
            ELSE IF CanMoveSide(x, y, dir)
              THEN SetTemperatureIn(t, x + dir, y, 1000)
            ELSE IF CanMoveSide(x, y, -dir)
              THEN SetTemperatureIn(t, x - dir, y, 1000)
            ELSE t
  IN [next |-> Flow(ng, x, y, "Lava", dir),
      temp |-> SetTemperatureIn(t1, x, y, 1000)]

UpdateSteam(ng, x, y, dir, fade) ==
  IF Get(x, y - 1) = "Empty"
    THEN SetNext(SetNext(ng, x, y - 1, "Steam"), x, y, "Empty")
  ELSE IF Get(x + dir, y) = "Empty"
    THEN SetNext(SetNext(ng, x + dir, y, "Steam"), x, y, "Empty")
  ELSE IF Get(x - dir, y) = "Empty"
    THEN SetNext(SetNext(ng, x - dir, y, "Steam"), x, y, "Empty")
  ELSE IF fade
    THEN SetNext(ng, x, y, "Empty")
  ELSE ng

UpdateFire(ng, t, x, y, rise, gate, dir) ==
  LET up == Get(x, y - 1) = "Empty" /\ rise
      side == ~up /\ gate /\ Get(x + dir, y) = "Empty"
      moved == up \/ side
      ng1 == IF up THEN SetNext(ng, x, y - 1, "Fire")
             ELSE IF side THEN SetNext(ng, x + dir, y, "Fire")
             ELSE ng
      t1 == IF up THEN SetTemperatureIn(t, x, y - 1, 800)
            ELSE IF side THEN SetTemperatureIn(t, x + dir, y, 800)
            ELSE t
  IN [next |-> IF moved THEN SetNext(ng1, x, y, "Empty") ELSE ng1,
      temp |-> SetTemperatureIn(t1, x, y, 800)]

UpdateSmoke(ng, x, y, rise, dir3, gate, fade) ==
  LET ng1 == IF Get(x, y - 1) = "Empty" /\ rise
               THEN SetNext(SetNext(ng, x, y - 1, "Smoke"), x, y, "Empty")
             ELSE IF dir3 # 0 /\ Get(x + dir3, y) = "Empty" /\ gate
               THEN SetNext(SetNext(ng, x + dir3, y, "Smoke"), x, y, "Empty")
             ELSE ng
  IN IF fade THEN SetNext(ng1, x, y, "Empty") ELSE ng1

\* the switch of Update over the type p of the scanned cell
Move(p, ng, t, x, y, r) ==
  CASE p = "Sand"  -> [next |-> UpdateSand(ng, x, y, r.dir), temp |-> t]
    [] p = "Water" -> [next |-> UpdateWater(ng, x, y, r.dir), temp |-> t]
    [] p = "Lava"  -> UpdateLava(ng, t, x, y, r.dir)
    [] p = "Steam" -> [next |-> UpdateSteam(ng, x, y, r.dir, r.fade), temp |-> t]
    [] p = "Acid"  -> [next |-> UpdateAcid(ng, x, y, r.dir), temp |-> t]
    [] p = "Oil"   -> [next |-> UpdateOil(ng, x, y, r.gate, r.dir), temp |-> t]
    [] p = "Fire"  -> UpdateFire(ng, t, x, y, r.rise, r.gate, r.dir)
    [] p = "Smoke" ->
         [next |-> UpdateSmoke(ng, x, y, r.rise, r.dir3, r.gate, r.fade),
          temp |-> t]
    [] OTHER -> [next |-> ng, temp |-> t]

\* the loop body with the movement rule run after every reaction
ProcessCellAlwaysMoves(ng, t, x, y, r) ==
  LET p == Get(x, y)
      pr == ProcessReactions(ng, t, x, y, r)
  IN IF p = "Empty" THEN [next |-> ng, temp |-> t]
     ELSE Move(p, pr.next, t, x, y, r)

\* the body of the scan loop for the cell (x, y): reaction first, then
\* movement unless the reaction consumed the cell
ProcessCell(ng, t, x, y, r) ==
  LET p == Get(x, y)
      pr == ProcessReactions(ng, t, x, y, r)
  IN IF p = "Empty" THEN [next |-> ng, temp |-> t]
     ELSE IF pr.consumed THEN [next |-> pr.next, temp |-> t]
     ELSE Move(p, pr.next, t, x, y, r)

\* ------------------------------------------------------------- temperature
\* the mean taken over all 8 neighbours, the Empty ones included
NewTemperatureAnyNeighbour(t, x, y) ==
  LET RECURSIVE Sum(_)
      Sum(S) == IF S = {} THEN 0
                ELSE LET i == CHOOSE j \in S : TRUE
                     IN GetTemperatureIn(t, x + NeighborOrder[i][1],
                                         y + NeighborOrder[i][2])
                        + Sum(S \ {i})
      mean == TruncDiv(GetTemperatureIn(t, x, y) + Sum(1 .. 8), 9)
      down == IF mean > 20 THEN Max(20, mean - 1) ELSE mean
  IN IF down < 20 THEN Min(20, down + 1) ELSE down

\* the mean moved one unit away from 20 instead of toward it
NewTemperatureAwayFromAmbient(t, x, y) ==
  LET nb == {i \in 1 .. 8 :
               Get(x + NeighborOrder[i][1], y + NeighborOrder[i][2]) # "Empty"}
      RECURSIVE Sum(_)
      Sum(S) == IF S = {} THEN 0
                ELSE LET i == CHOOSE j \in S : TRUE
                     IN GetTemperatureIn(t, x + NeighborOrder[i][1],
                                         y + NeighborOrder[i][2])
                        + Sum(S \ {i})
      mean == TruncDiv(GetTemperatureIn(t, x, y) + Sum(nb),
                       1 + Cardinality(nb))
  IN IF mean > 20 THEN mean + 1 ELSE IF mean < 20 THEN mean - 1 ELSE mean

\* the new temperature of one processed cell: the dy/dx loops add up the
\* temperatures of the non-Empty neighbours, i being the place of the
\* neighbour in the order of the loops
NewTemperature(t, x, y) ==
  LET occupied(i) ==
        Get(x + NeighborOrder[i][1], y + NeighborOrder[i][2]) # "Empty"
      RECURSIVE Sum(_)
      Sum(i) == IF i > 8 THEN 0
                ELSE (IF occupied(i)
                        THEN GetTemperatureIn(t, x + NeighborOrder[i][1],
                                              y + NeighborOrder[i][2])
                      ELSE 0) + Sum(i + 1)
      avgTemp == GetTemperatureIn(t, x, y) + Sum(1)
      neighbors == 1 + Cardinality({i \in 1 .. 8 : occupied(i)})
      mean == TruncDiv(avgTemp, neighbors)
      down == IF mean > 20 THEN Max(20, mean - 1) ELSE mean
  IN IF down < 20 THEN Min(20, down + 1) ELSE down

\* the in-place loops of UpdateTemperature from the cell (x, y) on; the field
\* with the new temperature of (x, y) is the value u the loops go on with
RECURSIVE DiffuseFrom(_, _, _)
DiffuseFrom(t, x, y) ==
  IF y > Height - 2 THEN t
  ELSE IF x > Width - 2 THEN DiffuseFrom(t, 1, y + 1)
  ELSE IF Get(x, y) = "Empty" THEN DiffuseFrom(t, x + 1, y)
  ELSE CHOOSE done \in
         {DiffuseFrom(u, x + 1, y) :
            u \in {SetTemperatureIn(t, x, y, NewTemperature(t, x, y))}} : TRUE

UpdateTemperature(t) == DiffuseFrom(t, 1, 1)

\* ------------------------------------------------------------------ Update
\* skipFrames rounded up instead of truncated
SkipFramesCeil(ts) == Max(1, (20 + ts - 1) \div ts)

\* skipFrames = std::max(1, (int)(1.0f / timeSpeed)), timeSpeed in twentieths
SkipFrames(ts) == Max(1, 20 \div ts)

\* Update() returning at the pause test
UpdatePaused ==
  /\ pc = "idle" /\ frames < MaxFrames
  /\ isPaused
  /\ frames' = frames + 1
  /\ call' = Call0("Update")
  /\ UNCHANGED <<grid, nextGrid, temperature, isPaused, timeSpeed,
                 frameCounter, pc, scan, file, calls, preTick>>

\* Update() returning at the frame-skip test
UpdateSkipped ==
  /\ pc = "idle" /\ frames < MaxFrames
  /\ ~isPaused
  /\ frameCounter' = frameCounter + 1
  /\ frameCounter' % SkipFrames(timeSpeed) # 0
  /\ frames' = frames + 1
  /\ call' = Call0("Update")
  /\ UNCHANGED <<grid, nextGrid, temperature, isPaused, timeSpeed, pc, scan,
                 file, calls, preTick>>

\* Update() without the pause test
UpdateBeginWhilePaused ==
  /\ pc = "idle" /\ frames < MaxFrames
  /\ frameCounter' = frameCounter + 1
  /\ frameCounter' % SkipFrames(timeSpeed) = 0
  /\ nextGrid' = CreateGroundNext(grid)
  /\ preTick' = temperature
  /\ pc' = "scan"
  /\ scan' = <<1, Height - 3>>
  /\ frames' = frames + 1
  /\ call' = Call0("Update")
  /\ UNCHANGED <<grid, temperature, isPaused, timeSpeed, file, calls>>

\* Update() up to the scan loops: the copy and CreateGroundNext
UpdateBegin ==
  /\ pc = "idle" /\ frames < MaxFrames
  /\ ~isPaused
  /\ frameCounter' = frameCounter + 1
  /\ frameCounter' % SkipFrames(timeSpeed) = 0
  /\ nextGrid' = CreateGroundNext(grid)
  /\ preTick' = temperature
  /\ pc' = "scan"
  /\ scan' = <<1, Height - 3>>
  /\ frames' = frames + 1
  /\ call' = Call0("Update")
  /\ UNCHANGED <<grid, temperature, isPaused, timeSpeed, file, calls>>

\* the scan loop writing the current buffer in place
ScanCellInPlace ==
  /\ pc = "scan"
  /\ \E r \in Draws(Get(scan[1], scan[2])) :
       LET res == ProcessCell(grid, temperature, scan[1], scan[2], r)
       IN /\ grid' = res.next
          /\ temperature' = res.temp
  /\ IF scan[1] < Width - 2 THEN /\ scan' = <<scan[1] + 1, scan[2]>>
                                 /\ pc' = "scan"
     ELSE IF scan[2] > 0 THEN /\ scan' = <<1, scan[2] - 1>>
                              /\ pc' = "scan"
     ELSE /\ scan' = <<1, Height - 3>>
          /\ pc' = "diffuse"
  /\ UNCHANGED <<nextGrid, isPaused, timeSpeed, frameCounter, file, calls,
                 frames, call, preTick>>

\* one iteration of the scan loops
ScanCell ==
  /\ pc = "scan"
  /\ \E r \in Draws(Get(scan[1], scan[2])) :
       LET res == ProcessCell(nextGrid, temperature, scan[1], scan[2], r)
       IN /\ nextGrid' = res.next
          /\ temperature' = res.temp
  /\ IF scan[1] < Width - 2 THEN /\ scan' = <<scan[1] + 1, scan[2]>>
                                 /\ pc' = "scan"
     ELSE IF scan[2] > 0 THEN /\ scan' = <<1, scan[2] - 1>>
                              /\ pc' = "scan"
     ELSE /\ scan' = <<1, Height - 3>>
          /\ pc' = "diffuse"
  /\ UNCHANGED <<grid, isPaused, timeSpeed, frameCounter, file, calls, frames,
                 call, preTick>>

\* the end of Update(): UpdateTemperature and the swap
UpdateEnd ==
  /\ pc = "diffuse"
  /\ temperature' = UpdateTemperature(temperature)
  /\ grid' = nextGrid
  /\ nextGrid' = grid
  /\ pc' = "idle"
  /\ UNCHANGED <<isPaused, timeSpeed, frameCounter, scan, file, calls, frames,
                 call, preTick>>

\* the scan loops with the rows taken from 0 down to Height - 3
ScanOrderTopDown ==
  [i \in 1 .. (Width - 2) * (Height - 2) |->
     <<1 + ((i - 1) % (Width - 2)), (i - 1) \div (Width - 2)>>]

\* the cells in the order the scan loops visit them: rows from Height - 3 up
\* to 0, in a row the columns 1 .. Width - 2 from left to right
ScanOrder ==
  [i \in 1 .. (Width - 2) * (Height - 2) |->
     <<1 + ((i - 1) % (Width - 2)),
       Height - 3 - ((i - 1) \div (Width - 2))>>]

\* the scan loops run over the cells order[i], order[i + 1], ... with the
\* draws dr[c] for the cell c, from the next buffer ng and the temperatures t
RECURSIVE ScanRun(_, _, _, _, _)
ScanRun(order, i, dr, ng, t) ==
  IF i > Len(order) THEN [next |-> ng, temp |-> t]
  ELSE LET c == order[i]
           res == ProcessCell(ng, t, c[1], c[2], dr[c])
       IN ScanRun(order, i + 1, dr, res.next, res.temp)

\* ------------------------------------------------------------- AddParticle
\* the stamp without the case of Steam
InitialTemperatureNoSteam(p) ==
  CASE p \in {"Lava", "Fire"} -> 1000
    [] p = "Ice" -> -10
    [] OTHER -> 20

\* the initial temperature stamped for a painted type
InitialTemperature(p) ==
  CASE p \in {"Lava", "Fire"} -> 1000
    [] p = "Ice" -> -10
    [] p = "Steam" -> 100
    [] OTHER -> 20

\* the brush tests without the test of the side walls
PaintCellOnWalls(g, x, y, p, brushRadius, dx, dy) ==
  LET nx == x + dx
      ny == y + dy
  IN /\ dx * dx + dy * dy <= brushRadius * brushRadius
     /\ nx >= 0 /\ nx < Width /\ ny >= 0 /\ ny < Height - 2
     /\ (p = "Empty" \/ GetIn(g, nx, ny) = "Empty"
                     \/ GetIn(g, nx, ny) = "Steam")

\* the tests of the brush loops for the offset (dx, dy): inside the disc,
\* inside the paintable interior, and the target may be overwritten
PaintCell(g, x, y, p, brushRadius, dx, dy) ==
  LET nx == x + dx
      ny == y + dy
  IN /\ dx * dx + dy * dy <= brushRadius * brushRadius
     /\ nx > 0 /\ nx < Width - 1 /\ ny >= 0 /\ ny < Height - 2
     /\ (p = "Empty" \/ GetIn(g, nx, ny) = "Empty"
                     \/ GetIn(g, nx, ny) = "Steam")

\* the offsets dx, dy the brush loops run over
BrushRange(brushRadius) == (-brushRadius) .. brushRadius

\* the brush loops: every offset writes its own target cell only, so the
\* result is given cell by cell
Paint(g, t, x, y, p, brush) ==
  LET brushRadius == brush \div 2
      hit(c) == /\ c[1] - x \in BrushRange(brushRadius)
                /\ c[2] - y \in BrushRange(brushRadius)
                /\ PaintCell(g, x, y, p, brushRadius, c[1] - x, c[2] - y)
  IN [grid |-> [c \in Cells |->
                  IF hit(c) THEN SetIn(g, c[1], c[2], p)[c] ELSE g[c]],
      temp |-> [c \in Cells |->
                  IF hit(c)
                    THEN SetTemperatureIn(t, c[1], c[2],
                                          InitialTemperature(p))[c]
                  ELSE t[c]]]

AddParticle(x, y, p, brush) ==
  /\ pc = "idle" /\ calls < MaxCalls
  /\ LET res == Paint(grid, temperature, x, y, p, brush)
     IN /\ grid' = res.grid
        /\ temperature' = res.temp
  /\ calls' = calls + 1
  /\ call' = Call("AddParticle", x, y, p, brush)
  /\ UNCHANGED <<frames, nextGrid, isPaused, timeSpeed, frameCounter, pc,
                 scan, file, preTick>>

\* ------------------------------------------------- Set, SetTemperature, Clear
Set(x, y, p) ==
  /\ pc = "idle" /\ calls < MaxCalls
  /\ grid' = SetIn(grid, x, y, p)
  /\ calls' = calls + 1
  /\ call' = Call("Set", x, y, p, 0)
  /\ UNCHANGED <<frames, nextGrid, temperature, isPaused, timeSpeed,
                 frameCounter, pc, scan, file, preTick>>

SetTemperature(x, y, temp) ==
  /\ pc = "idle" /\ calls < MaxCalls
  /\ temperature' = SetTemperatureIn(temperature, x, y, temp)
  /\ calls' = calls + 1
  /\ call' = Call("SetTemperature", x, y, "Empty", temp)
  /\ UNCHANGED <<frames, grid, nextGrid, isPaused, timeSpeed, frameCounter,
                 pc, scan, file, preTick>>

Clear ==
  /\ pc = "idle" /\ calls < MaxCalls
  /\ grid' = ClearGrid
  /\ nextGrid' = ClearNext
  /\ temperature' = ClearTemperature
  /\ calls' = calls + 1
  /\ call' = Call0("Clear")
  /\ UNCHANGED <<frames, isPaused, timeSpeed, frameCounter, pc, scan, file,
                 preTick>>

\* -------------------------------------------------------------- persistence
GetSymbolForParticle(p) ==
  IF \E i \in 1 .. Len(colors) : colors[i].type = p
    THEN colors[CHOOSE i \in 1 .. Len(colors) :
                  /\ colors[i].type = p
                  /\ \A j \in 1 .. (i - 1) : colors[j].type # p].symbol
  ELSE " "

ParticleFromSymbol(c) ==
  IF \E i \in 1 .. Len(colors) : colors[i].symbol = c
    THEN colors[CHOOSE i \in 1 .. Len(colors) :
                  /\ colors[i].symbol = c
                  /\ \A j \in 1 .. (i - 1) : colors[j].symbol # c].type
  ELSE "Empty"

\* operator<< of an int: its decimal digits
RECURSIVE Decimal(_)
Decimal(n) ==
  LET digit == <<"0", "1", "2", "3", "4", "5", "6", "7", "8", "9">>
  IN IF n < 10 THEN <<digit[n + 1]>>
     ELSE Decimal(n \div 10) \o <<digit[(n % 10) + 1]>>

\* "# Particle Simulator Save File"
HeaderLine1 ==
  <<"#", " ", "P", "a", "r", "t", "i", "c", "l", "e", " ", "S", "i", "m", "u",
    "l", "a", "t", "o", "r", " ", "S", "a", "v", "e", " ", "F", "i", "l", "e">>

\* "# Width: " << width << " Height: " << height
HeaderLine2 ==
  <<"#", " ", "W", "i", "d", "t", "h", ":", " ">> \o Decimal(Width)
    \o <<" ", "H", "e", "i", "g", "h", "t", ":", " ">> \o Decimal(Height)

\* the lines SaveToFile writes for the current buffer g
SavedLines(g) ==
  <<HeaderLine1, HeaderLine2>>
    \o [j \in 1 .. Height |->
          [i \in 1 .. Width |-> GetSymbolForParticle(GetIn(g, i - 1, j - 1))]]

SaveToFile(opened) ==
  /\ pc = "idle" /\ calls < MaxCalls
  /\ file' = IF opened THEN SavedLines(grid) ELSE file
  /\ calls' = calls + 1
  /\ call' = Call0("SaveToFile")
  /\ UNCHANGED <<frames, grid, nextGrid, temperature, isPaused, timeSpeed,
                 frameCounter, pc, scan, preTick>>

\* the inner loop of LoadFromFile over the characters of one line
RECURSIVE LoadLine(_, _, _, _)
LoadLine(g, line, x, y) ==
  IF ~(x < Len(line) /\ x < Width) THEN g
  ELSE LET p == ParticleFromSymbol(line[x + 1])
       IN IF y >= Height - 2 \/ x = 0 \/ x = Width - 1
            THEN LoadLine(SetIn(g, x, y, "Stone"), line, x + 1, y)
          ELSE LoadLine(SetIn(g, x, y, p), line, x + 1, y)

\* the getline loop of LoadFromFile from line i on, y rows having been read
RECURSIVE LoadLines(_, _, _, _)
LoadLines(g, lines, i, y) ==
  IF ~(i <= Len(lines) /\ y < Height) THEN g
  ELSE IF lines[i] = <<>> \/ lines[i][1] = "#"
    THEN LoadLines(g, lines, i + 1, y)
  ELSE LoadLines(LoadLine(g, lines[i], 0, y), lines, i + 1, y + 1)

\* the lines read into the grid as it is, without Clear()
LoadedGridNoClear(lines) == LoadLines(grid, lines, 1, 0)

\* the current buffer after LoadFromFile has read the lines
LoadedGrid(lines) == LoadLines(ClearGrid, lines, 1, 0)

\* LoadFromFile calling Clear() before it tests whether the file is open
LoadFromFileClearFirst(opened) ==
  /\ pc = "idle" /\ calls < MaxCalls
  /\ opened => file # NoFile
  /\ grid' = IF opened THEN LoadedGrid(file) ELSE ClearGrid
  /\ nextGrid' = ClearNext
  /\ temperature' = ClearTemperature
  /\ calls' = calls + 1
  /\ call' = Call("LoadFromFile", 0, 0, "Empty", IF opened THEN 1 ELSE 0)
  /\ UNCHANGED <<frames, isPaused, timeSpeed, frameCounter, pc, scan, file,
                 preTick>>

LoadFromFile(opened) ==
  /\ pc = "idle" /\ calls < MaxCalls
  /\ opened => file # NoFile
  /\ IF opened
       THEN /\ grid' = LoadedGrid(file)
            /\ nextGrid' = ClearNext
            /\ temperature' = ClearTemperature
       ELSE UNCHANGED <<grid, nextGrid, temperature>>
  /\ calls' = calls + 1
  /\ call' = Call("LoadFromFile", 0, 0, "Empty", IF opened THEN 1 ELSE 0)
  /\ UNCHANGED <<frames, isPaused, timeSpeed, frameCounter, pc, scan, file,
                 preTick>>

\* ------------------------------------------------------------------- clock
\* KEY_SPACE
TogglePause ==
  /\ pc = "idle" /\ calls < MaxCalls
  /\ isPaused' = ~isPaused
  /\ calls' = calls + 1
  /\ call' = Call0("TogglePause")
  /\ UNCHANGED <<frames, grid, nextGrid, temperature, timeSpeed, frameCounter,
                 pc, scan, file, preTick>>

\* KEY_EQUAL: timeSpeed = min(4.0f, timeSpeed + 0.25f)
SpeedUp ==
  /\ pc = "idle" /\ calls < MaxCalls
  /\ timeSpeed' = Min(80, timeSpeed + 5)
  /\ calls' = calls + 1
  /\ call' = Call0("SpeedUp")
  /\ UNCHANGED <<frames, grid, nextGrid, temperature, isPaused, frameCounter,
                 pc, scan, file, preTick>>

\* KEY_MINUS: timeSpeed = max(0.1f, timeSpeed - 0.25f)
SpeedDown ==
  /\ pc = "idle" /\ calls < MaxCalls
  /\ timeSpeed' = Max(2, timeSpeed - 5)
  /\ calls' = calls + 1
  /\ call' = Call0("SpeedDown")
  /\ UNCHANGED <<frames, grid, nextGrid, temperature, isPaused, frameCounter,
                 pc, scan, file, preTick>>

\* ============================================================ specifications
\* every operation of the grid, on a few inputs <<x, y, p, brush>>,
\* <<x, y, p>> and <<x, y, temp>> each
SpecPaints ==
  {<<2, 1, "Sand", 3>>, <<2, 0, "Water", 1>>, <<2, 1, "Lava", 1>>,
   <<0, 1, "Steam", 3>>, <<1, 0, "Fire", 1>>, <<Width - 2, 1, "Acid", 1>>,
   <<Width - 2, 0, "Oil", 1>>, <<1, Height - 3, "Smoke", 1>>,
   <<2, 1, "Empty", 5>>}

SpecSets == {<<1, 0, "Ice">>, <<0, 0, "Sand">>, <<2, Height - 2, "Sand">>}

SpecTemperatures == {<<2, 0, 150>>, <<Width, 0, 150>>}

Next ==
  \/ \E a \in SpecPaints : AddParticle(a[1], a[2], a[3], a[4])
  \/ \E a \in SpecSets : Set(a[1], a[2], a[3])
  \/ \E a \in SpecTemperatures : SetTemperature(a[1], a[2], a[3])
  \/ Clear
  \/ SaveToFile(TRUE)
  \/ \E opened \in BOOLEAN : LoadFromFile(opened)
  \/ TogglePause
  \/ UpdatePaused
  \/ UpdateBegin
  \/ ScanCell
  \/ UpdateEnd

Spec == Init /\ [][Next]_vars

\* painting: every type and every brush size, centres on the left wall, in
\* the interior, on the floor and outside the grid
PaintInputs ==
  {<<2, 1, p, 3>> : p \in Particle}
    \cup {<<0, 1, p, b>> : p \in {"Sand", "Lava", "Empty"}, b \in BrushSize}
    \cup {<<Width, Height - 1, "Lava", b>> : b \in {3, 5, 7}}
    \cup {<<-1, -1, "Empty", 7>>, <<2, 1, "Empty", 1>>,
          <<1, Height - 2, "Ice", 3>>, <<Width - 2, 0, "Fire", 1>>}

\* temperatures forced on a wall cell and on an interior cell
PaintTemperatures == {<<0, 1, 150>>, <<2, 1, 150>>}

NextPaint ==
  \/ \E a \in PaintInputs : AddParticle(a[1], a[2], a[3], a[4])
  \/ \E a \in PaintTemperatures : SetTemperature(a[1], a[2], a[3])

SpecPaint == InitNoFile /\ [][NextPaint]_vars

\* sand only: painting Sand or erasing, and ticks
SandCentres == {<<1, 1>>, <<2, 1>>, <<2, 0>>, <<Width - 2, Height - 3>>}

NextSand ==
  \/ \E c \in SandCentres, p \in {"Sand", "Empty"}, b \in {1, 3} :
       AddParticle(c[1], c[2], p, b)
  \/ UpdateBegin
  \/ ScanCell
  \/ UpdateEnd

SpecSand == InitNoFile /\ [][NextSand]_vars

\* lava and water: painting both, forcing temperatures, and ticks
HeatPaints ==
  {<<2, 1, "Lava", 1>>, <<2, 1, "Water", 3>>, <<2, 0, "Water", 1>>,
   <<Width - 2, Height - 3, "Water", 1>>, <<2, 0, "Sand", 1>>,
   <<1, 1, "Lava", 1>>}

HeatTemperatures == {<<2, 0, 150>>, <<2, 0, 100>>}

NextHeat ==
  \/ \E a \in HeatPaints : AddParticle(a[1], a[2], a[3], a[4])
  \/ \E a \in HeatTemperatures : SetTemperature(a[1], a[2], a[3])
  \/ UpdateBegin
  \/ ScanCell
  \/ UpdateEnd

SpecHeat == InitNoFile /\ [][NextHeat]_vars

\* the accessors: Set and SetTemperature outside the grid (four sides), on
\* protected cells (walls, floor rows) and on interior cells
AccessCells ==
  {<<-1, 0>>, <<Width, 1>>, <<1, -1>>, <<1, Height>>,
   <<0, 0>>, <<Width - 1, 1>>, <<1, Height - 2>>, <<2, Height - 1>>,
   <<1, 0>>, <<2, 1>>}

NextAccess ==
  \/ \E c \in AccessCells, p \in {"Sand", "Empty"} : Set(c[1], c[2], p)
  \/ \E c \in AccessCells : SetTemperature(c[1], c[2], 150)

SpecAccess == InitNoFile /\ [][NextAccess]_vars

\* cells that meet inside one tick: sand above the floor row, water and lava
\* beside steam on the floor row, and the steam cooled to the ambient value
OrderPaints ==
  {<<2, Height - 4, "Sand", 1>>, <<1, Height - 3, "Water", 1>>,
   <<1, Height - 3, "Lava", 1>>, <<2, Height - 3, "Steam", 1>>}

OrderTemperatures == {<<2, Height - 3, 20>>}

NextOrder ==
  \/ \E a \in OrderPaints : AddParticle(a[1], a[2], a[3], a[4])
  \/ \E a \in OrderTemperatures : SetTemperature(a[1], a[2], a[3])
  \/ UpdateBegin
  \/ ScanCell
  \/ UpdateEnd

SpecOrder == InitNoFile /\ [][NextOrder]_vars

\* the clock: time scales the keys reach from 1.0 in steps of 0.25 between
\* 0.1 and 4.0, in twentieths, and frame counters up to the longest period
ClockSpeeds == {2, 7, 10, 15, 20, 80}

\* an empty grid after the keys have set the time scale ts and f unpaused
\* frames have passed: the first executed tick has stamped the next buffer
InitClock ==
  \E ts \in ClockSpeeds, f \in 0 .. 10 :
    /\ grid = ClearGrid
    /\ nextGrid = IF f >= SkipFrames(ts) THEN ClearGrid ELSE ClearNext
    /\ temperature = ClearTemperature
    /\ isPaused = FALSE
    /\ timeSpeed = ts
    /\ frameCounter = f
    /\ pc = "idle"
    /\ scan = <<1, Height - 3>>
    /\ file = NoFile
    /\ calls = 0
    /\ frames = 0
    /\ call = Call0("ParticleGrid")
    /\ preTick = ClearTemperature

NextClock ==
  \/ AddParticle(2, 0, "Sand", 1)
  \/ SpeedUp
  \/ SpeedDown
  \/ UpdateSkipped
  \/ UpdateBegin
  \/ ScanCell
  \/ UpdateEnd

SpecClock == InitClock /\ [][NextClock]_vars

\* the file: painting, ticks, saving, and loading a file that is missing,
\* written by hand or saved, and that opens or does not
FilePaints == {<<2, 1, "Lava", 3>>, <<2, 0, "Sand", 1>>}

NextFile ==
  \/ \E a \in FilePaints : AddParticle(a[1], a[2], a[3], a[4])
  \/ SaveToFile(TRUE)
  \/ \E opened \in BOOLEAN : LoadFromFile(opened)
  \/ UpdateBegin
  \/ ScanCell
  \/ UpdateEnd

SpecFile == Init /\ [][NextFile]_vars

\* diffusion: cold, hot and ambient cells in the top row and below it, and
\* temperatures forced far below and above the ambient value
DiffusePaints ==
  {<<2, 1, "Ice", 3>>, <<2, 0, "Lava", 1>>, <<1, Height - 3, "Sand", 1>>,
   <<2, 1, "Sand", 1>>}

DiffuseTemperatures == {<<2, 1, -200>>, <<1, 1, 150>>}

NextDiffuse ==
  \/ \E a \in DiffusePaints : AddParticle(a[1], a[2], a[3], a[4])
  \/ \E a \in DiffuseTemperatures : SetTemperature(a[1], a[2], a[3])
  \/ UpdateBegin
  \/ ScanCell
  \/ UpdateEnd

SpecDiffuse == InitNoFile /\ [][NextDiffuse]_vars

\* reactions: a lava, fire or acid cell in the middle, water, oil and sand
\* beside it, and temperatures forced below the thresholds of the later rules
ReactPaints ==
  {<<2, 1, "Lava", 1>>, <<2, 1, "Fire", 1>>, <<1, 1, "Water", 1>>,
   <<3, 1, "Oil", 1>>, <<2, 1, "Acid", 1>>, <<1, 1, "Sand", 1>>}

ReactTemperatures == {<<2, 1, 400>>, <<1, 1, -5>>}

NextReact ==
  \/ \E a \in ReactPaints : AddParticle(a[1], a[2], a[3], a[4])
  \/ \E a \in ReactTemperatures : SetTemperature(a[1], a[2], a[3])
  \/ UpdateBegin
  \/ ScanCell
  \/ UpdateEnd

SpecReact == InitNoFile /\ [][NextReact]_vars

\* acid: an acid cell with sand and ice beside it, in its own row and in the
\* top row
AcidPaints ==
  {<<2, 1, "Acid", 1>>, <<1, 0, "Sand", 1>>, <<1, 1, "Sand", 1>>,
   <<3, 1, "Ice", 1>>}

NextAcid ==
  \/ \E a \in AcidPaints : AddParticle(a[1], a[2], a[3], a[4])
  \/ UpdateBegin
  \/ ScanCell
  \/ UpdateEnd

SpecAcid == InitNoFile /\ [][NextAcid]_vars

\* displacement: a steam cell in the corner of the bottom row, water and oil
\* above it, sand that closes the steam's way to the side
SteamPaints ==
  {<<1, Height - 3, "Steam", 1>>, <<1, Height - 4, "Water", 1>>,
   <<1, Height - 4, "Oil", 1>>, <<2, Height - 3, "Sand", 1>>}

NextSteam ==
  \/ \E a \in SteamPaints : AddParticle(a[1], a[2], a[3], a[4])
  \/ UpdateBegin
  \/ ScanCell
  \/ UpdateEnd

SpecSteam == InitNoFile /\ [][NextSteam]_vars

\* rock: an Obsidian or Stone cell in the middle, and beside and above it the
\* types that dissolve, fall, flow, burn and react
RockPaints ==
  {<<2, 1, "Obsidian", 1>>, <<2, 1, "Stone", 1>>, <<1, 1, "Acid", 1>>,
   <<2, 0, "Sand", 1>>, <<3, 1, "Lava", 1>>, <<3, 0, "Water", 1>>,
   <<1, 0, "Fire", 1>>}

NextRock ==
  \/ \E a \in RockPaints : AddParticle(a[1], a[2], a[3], a[4])
  \/ UpdateBegin
  \/ ScanCell
  \/ UpdateEnd

SpecRock == InitNoFile /\ [][NextRock]_vars

\* several matching neighbours: a lava or fire cell in the middle, and water
\* or oil painted around it with the medium brush
TiePaints ==
  {<<2, 1, "Lava", 1>>, <<2, 1, "Fire", 1>>, <<2, 1, "Water", 3>>,
   <<2, 1, "Oil", 3>>}

NextTie ==
  \/ \E a \in TiePaints : AddParticle(a[1], a[2], a[3], a[4])
  \/ UpdateBegin
  \/ ScanCell
  \/ UpdateEnd

SpecTie == InitNoFile /\ [][NextTie]_vars

\* the range of the temperatures: the hot and the cold types painted, the
\* grid cleared and loaded, and ticks; no call of SetTemperature from outside
RangePaints ==
  {<<2, 1, "Lava", 1>>, <<2, 1, "Ice", 3>>, <<1, 1, "Fire", 1>>,
   <<3, 0, "Steam", 1>>}

NextRange ==
  \/ \E a \in RangePaints : AddParticle(a[1], a[2], a[3], a[4])
  \/ Clear
  \/ \E opened \in BOOLEAN : LoadFromFile(opened)
  \/ UpdateBegin
  \/ ScanCell
  \/ UpdateEnd

SpecRange == Init /\ [][NextRange]_vars

\* Update() up to the scan loops in a run of unboundedly many frames: the
\* frame counter is kept modulo the period, which is all Update() reads of
\* it, and the frame is not counted in frames
UpdateBeginRecurring ==
  /\ pc = "idle"
  /\ ~isPaused
  /\ frameCounter' = (frameCounter + 1) % SkipFrames(timeSpeed)
  /\ frameCounter' = 0
  /\ nextGrid' = CreateGroundNext(grid)
  /\ preTick' = temperature
  /\ pc' = "scan"
  /\ scan' = <<1, Height - 3>>
  /\ call' = Call0("Update")
  /\ UNCHANGED <<grid, temperature, isPaused, timeSpeed, file, calls,
                 frames>>

\* cooling and warming: types other than Lava and Fire, painted in the top
\* row and below it; then the main loop calls Update() for ever
CoolPaints ==
  {<<2, 0, "Ice", 1>>, <<2, 2, "Ice", 1>>, <<2, 1, "Sand", 1>>,
   <<1, Height - 3, "Water", 1>>}

NextCool ==
  \/ \E a \in CoolPaints : AddParticle(a[1], a[2], a[3], a[4])
  \/ UpdateBeginRecurring
  \/ ScanCell
  \/ UpdateEnd

\* the frame loop of main never stops calling Update(), and Update() runs to
\* its end
SpecCool ==
  /\ InitNoFile
  /\ [][NextCool]_vars
  /\ WF_vars(UpdateBeginRecurring)
  /\ WF_vars(ScanCell)
  /\ WF_vars(UpdateEnd)

\* sand only, painted in the upper rows; then the main loop calls Update()
\* for ever
SettlePaints ==
  {<<2, 0, "Sand", 3>>, <<1, 1, "Sand", 1>>, <<2, 1, "Sand", 1>>,
   <<Width - 2, 0, "Sand", 1>>}

NextSettle ==
  \/ \E a \in SettlePaints : AddParticle(a[1], a[2], a[3], a[4])
  \/ UpdateBeginRecurring
  \/ ScanCell
  \/ UpdateEnd

SpecSettle ==
  /\ InitNoFile
  /\ [][NextSettle]_vars
  /\ WF_vars(UpdateBeginRecurring)
  /\ WF_vars(ScanCell)
  /\ WF_vars(UpdateEnd)

\* ==================================================================== claims
\* the boundary: the bottom two rows and the outer columns
Boundary(c) == c[2] >= Height - 2 \/ c[1] = 0 \/ c[1] = Width - 1

Interior == {c \in Cells : ~Boundary(c)}

\* the up to 8 cells of the grid around c
Neighbours(c) ==
  {d \in Cells : /\ d # c
                 /\ d[1] - c[1] \in -1 .. 1
                 /\ d[2] - c[2] \in -1 .. 1}

Count(g, p) == Cardinality({c \in Cells : g[c] = p})

\* the step of Update() that ends an executed tick
TickEnds == pc = "diffuse" /\ pc' = "idle"

\* C1: in every reachable state, also inside a tick, every cell of the bottom
\* two rows and of the outer columns of the current buffer is Stone.
C1_BoundaryStone == \A c \in Cells : Boundary(c) => grid[c] = "Stone"

\* a tick has run on a grid with content and a call has tried the boundary
C1_Witness ==
  /\ pc = "idle" /\ frameCounter >= 1 /\ calls >= 2
  /\ \E c \in Interior : grid[c] \notin {"Empty", "Stone"}
  /\ C1_BoundaryStone

\* C2: in a grid of Sand and Empty only, an executed step() leaves the number
\* of Sand cells of the current buffer as it was.
C2_SandConserved ==
  [][TickEnds => Count(grid', "Sand") = Count(grid, "Sand")]_vars

\* C3: LoadFromFile of the file SaveToFile has just written for the current
\* buffer reproduces the cell types of the current buffer.
C3_RoundTrip ==
  [][(LoadFromFile(TRUE) /\ file = SavedLines(grid)) => grid' = grid]_vars

\* the lava at c has a water neighbour in the grid g
LavaMeetsWater(g, c) == g[c] = "Lava" /\ \E n \in Neighbours(c) : g[n] = "Water"

\* C4: a Lava cell with a Water neighbour: when it is scanned the next buffer
\* receives Obsidian at the lava and Steam at one water neighbour and no
\* other write; after the tick the lava holds Obsidian and its water
\* neighbours hold Steam.
C4_LavaWater ==
  [][/\ (pc = "scan" /\ LavaMeetsWater(grid, scan))
          => /\ nextGrid'[scan] = "Obsidian"
             /\ \E n \in Neighbours(scan) :
                  /\ grid[n] = "Water"
                  /\ nextGrid'[n] = "Steam"
                  /\ \A d \in Cells \ {scan, n} : nextGrid'[d] = nextGrid[d]
     /\ TickEnds
          => \A c \in Interior :
               LavaMeetsWater(grid, c)
                 => /\ grid'[c] = "Obsidian"
                    /\ \A n \in Neighbours(c) :
                         grid[n] = "Water" => grid'[n] = "Steam"]_vars

\* after a tick: the next buffer holds the grid as it was before the tick
C4_Witness ==
  /\ pc = "idle" /\ frameCounter >= 1 /\ call.op = "Update"
  /\ \E c \in Interior :
       /\ LavaMeetsWater(nextGrid, c)
       /\ grid[c] = "Obsidian"
       /\ \E n \in Neighbours(c) : nextGrid[n] = "Water" /\ grid[n] = "Steam"

\* C5: a Water cell hotter than 100: when it is scanned the next buffer
\* receives Steam at its position and nothing else (no movement), and after
\* the tick its position holds Steam.
C5_HotWater ==
  [][/\ (pc = "scan" /\ grid[scan] = "Water" /\ temperature[scan] > 100)
          => /\ nextGrid'[scan] = "Steam"
             /\ \A d \in Cells \ {scan} : nextGrid'[d] = nextGrid[d]
     /\ TickEnds
          => \A c \in Interior :
               (grid[c] = "Water" /\ temperature[c] > 100)
                 => grid'[c] = "Steam"]_vars

\* a water cell over an Empty cell, with no Lava and no Fire in the grid,
\* has become Steam where it was
C5_Witness ==
  /\ pc = "idle" /\ frameCounter >= 1 /\ call.op = "Update"
  /\ \A c \in Cells : nextGrid[c] \notin {"Lava", "Fire"}
  /\ \E c \in Interior :
       /\ nextGrid[c] = "Water" /\ grid[c] = "Steam"
       /\ nextGrid[<<c[1], c[2] + 1>>] = "Empty"

\* C6: an Update() call made while the pause flag is set changes no cell of
\* either buffer and no temperature, and starts no tick.
C6_PauseGate ==
  [][(isPaused /\ frames' # frames)
       => /\ grid' = grid
          /\ nextGrid' = nextGrid
          /\ temperature' = temperature
          /\ pc' = "idle"]_vars

\* two Update() calls while paused, with a sand cell that would fall
C6_Witness ==
  /\ isPaused /\ call.op = "Update" /\ frames >= 2 /\ frameCounter = 0
  /\ \E c \in Interior :
       grid[c] = "Sand" /\ grid[<<c[1], c[2] + 1>>] = "Empty"

\* C7: AddParticle changes neither the type nor the temperature of a cell of
\* the boundary, and column 0 is Stone after it.
C7_PaintKeepsBoundary ==
  [][call'.op = "AddParticle" /\ calls' # calls
       => /\ \A c \in Cells :
               Boundary(c) => /\ grid'[c] = grid[c]
                              /\ temperature'[c] = temperature[c]
          /\ \A y \in 0 .. Height - 1 : grid'[<<0, y>>] = "Stone"]_vars

\* an erasing brush centred on a cell of the left wall that is not at the
\* ambient temperature: the brush has erased beside the wall
C7_Witness ==
  /\ call.op = "AddParticle" /\ call.x = 0 /\ call.n >= 3 /\ call.p = "Empty"
  /\ grid[<<1, call.y>>] = "Empty"
  /\ temperature[<<0, call.y>>] = 150
  /\ \A y \in 0 .. Height - 1 : grid[<<0, y>>] = "Stone"

\* the radius of a brush size, and the temperature stamped for a type
C8_Radius(n) == CASE n = 1 -> 0 [] n = 3 -> 1 [] n = 5 -> 2 [] n = 7 -> 3

C8_Stamp(p) ==
  CASE p = "Lava" -> 1000 [] p = "Fire" -> 1000 [] p = "Ice" -> -10
    [] p = "Steam" -> 100 [] OTHER -> 20

\* C8: AddParticle(x, y, p, n) sets a cell to p and its temperature to the
\* stamp of p exactly if the cell is in the disc, in the interior, and p is
\* Empty or the cell holds Empty or Steam; every other cell keeps both.
C8_PaintEffect ==
  [][call'.op = "AddParticle" /\ calls' # calls
       => \A c \in Cells :
            LET dx == c[1] - call'.x
                dy == c[2] - call'.y
                r == C8_Radius(call'.n)
            IN IF /\ dx * dx + dy * dy <= r * r
                  /\ ~Boundary(c)
                  /\ (call'.p = "Empty" \/ grid[c] \in {"Empty", "Steam"})
                 THEN /\ grid'[c] = call'.p
                      /\ temperature'[c] = C8_Stamp(call'.p)
               ELSE /\ grid'[c] = grid[c]
                    /\ temperature'[c] = temperature[c]]_vars

\* Lava painted over a disc that held a Sand cell: the sand is kept
C8_Witness ==
  /\ call = Call("AddParticle", 2, 1, "Lava", 3)
  /\ grid[<<1, 1>>] = "Sand" /\ temperature[<<1, 1>>] = 20
  /\ grid[<<2, 1>>] = "Lava" /\ temperature[<<2, 1>>] = 1000

\* the coordinates around the grid, two cells beyond each side
C9_Around == ((-2) .. (Width + 1)) \X ((-2) .. (Height + 1))

C9_Outside(x, y) == x < 0 \/ x > Width - 1 \/ y < 0 \/ y > Height - 1

\* C9: outside the grid Get is Stone and GetTemperature is 20; Set and
\* SetTemperature outside change nothing; Set on a boundary cell changes
\* nothing; Set on another cell changes that cell of the current buffer only.
C9_Accessors ==
  /\ [](\A c \in C9_Around :
          C9_Outside(c[1], c[2])
            => Get(c[1], c[2]) = "Stone" /\ GetTemperature(c[1], c[2]) = 20)
  /\ [][/\ (call'.op = "Set" /\ calls' # calls)
             => /\ temperature' = temperature
                /\ nextGrid' = nextGrid
                /\ IF C9_Outside(call'.x, call'.y)
                        \/ Boundary(<<call'.x, call'.y>>)
                     THEN grid' = grid
                   ELSE /\ grid'[<<call'.x, call'.y>>] = call'.p
                        /\ \A d \in Cells \ {<<call'.x, call'.y>>} :
                             grid'[d] = grid[d]
        /\ (call'.op = "SetTemperature" /\ calls' # calls
             /\ C9_Outside(call'.x, call'.y))
             => /\ temperature' = temperature
                /\ grid' = grid
                /\ nextGrid' = nextGrid]_vars

\* Set has written an interior cell and then was called outside the grid
C9_Witness ==
  /\ call.op = "Set" /\ C9_Outside(call.x, call.y) /\ call.p = "Sand"
  /\ \E c \in Interior : grid[c] = "Sand"

\* C10: after Clear() the interior of the current buffer is Empty, the
\* boundary is Stone and every temperature is 20; a Clear() that follows a
\* Clear() changes nothing.
C10_Clear ==
  [][call'.op = "Clear" /\ calls' # calls
       => /\ \A c \in Cells :
               /\ grid'[c] = IF Boundary(c) THEN "Stone" ELSE "Empty"
               /\ temperature'[c] = 20
          /\ call.op = "Clear"
               => /\ grid' = grid
                  /\ nextGrid' = nextGrid
                  /\ temperature' = temperature]_vars

\* Clear() after a tick has run on a painted grid
C10_Witness ==
  /\ call.op = "Clear" /\ frameCounter >= 1 /\ calls >= 2
  /\ \A c \in Interior : grid[c] = "Empty"

\* C11: in every state between two operations the bottom two rows and the
\* outer columns are Stone in the current buffer and in the next buffer.
C11_BothBuffers ==
  pc = "idle"
    => \A c \in Cells :
         Boundary(c) => grid[c] = "Stone" /\ nextGrid[c] = "Stone"

\* a buffer of marks: a cell that holds a type afterwards has been written
C12_Blank == [c \in Cells |-> "none"]

\* C12: during an executed step() the current buffer is not written from the
\* copy to the swap; the copy gives the next buffer the current layout with
\* the ground; every scanned cell writes the next buffer only, and what it
\* writes is what it would write on any other next buffer (the next buffer
\* is not read); the swap makes the completed next buffer the current one.
C12_DoubleBuffer ==
  [][/\ (pc = "scan" \/ pc' = "scan") => grid' = grid
     /\ (pc = "idle" /\ pc' = "scan")
          => \A c \in Cells :
               nextGrid'[c] = IF Boundary(c) THEN "Stone" ELSE grid[c]
     /\ pc = "scan"
          => \E r \in Draws(grid[scan]) :
               LET w == ProcessCell(C12_Blank, temperature, scan[1], scan[2],
                                    r).next
               IN \A c \in Cells :
                    nextGrid'[c] = IF w[c] # "none" THEN w[c] ELSE nextGrid[c]
     /\ TickEnds => grid' = nextGrid]_vars

\* inside a tick: the next buffer has received a write and the current
\* buffer still holds a moving cell where the tick found it
C12_Witness ==
  /\ pc = "scan"
  /\ \E c \in Interior : grid[c] = "Sand" /\ nextGrid[c] = "Empty"

\* C13: the outcome of the scanned cell, for each of its draws, is the one
\* the temperatures of the beginning of the tick give.
C13_PreTickOnly ==
  pc = "scan"
    => \A r \in Draws(grid[scan]) :
         ProcessCell(nextGrid, temperature, scan[1], scan[2], r).next
           = ProcessCell(nextGrid, preTick, scan[1], scan[2], r).next

\* 1 / s truncated (and at least 1) and 1 / s rounded up, for the time scale
\* s = ts / 20
C14_Floor(ts) ==
  CHOOSE k \in 1 .. 20 : (k * ts <= 20 \/ k = 1) /\ (k + 1) * ts > 20

C14_Ceil(ts) == CHOOSE k \in 1 .. 20 : k * ts >= 20 /\ (k - 1) * ts < 20

\* an unpaused Update() call counts one frame, executes a tick if the frame
\* counter is then a multiple of every, and changes no cell and no
\* temperature otherwise
C14_Gate(every) ==
  (~isPaused /\ frames' # frames)
    => /\ frameCounter' = frameCounter + 1
       /\ IF frameCounter' % every = 0 THEN pc' = "scan"
          ELSE /\ pc' = "idle"
               /\ grid' = grid
               /\ nextGrid' = nextGrid
               /\ temperature' = temperature

\* C14 as stated: the period is 1 / s rounded up.
C14_CeilGate == [][C14_Gate(C14_Ceil(timeSpeed))]_vars

\* C14 as amended: the period is 1 / s truncated, and at least 1.
C14_FloorGate == [][C14_Gate(C14_Floor(timeSpeed))]_vars

\* at the time scale 0.75 a tick runs on an odd frame over a falling sand
C14_Witness ==
  /\ pc = "scan" /\ timeSpeed = 15 /\ frameCounter % 2 = 1
  /\ grid[<<2, 0>>] = "Sand"

\* the data lines of the file f: its lines that are neither empty nor
\* comments; the cell c is assigned from them if row c[2] and column c[1]
\* exist in them
C15_DataLines(f) ==
  IF f = NoFile THEN <<>>
  ELSE SelectSeq(f, LAMBDA line : Len(line) > 0 /\ line[1] # "#")

C15_Assigned(f, c) ==
  /\ c[2] + 1 <= Len(C15_DataLines(f))
  /\ c[1] + 1 <= Len(C15_DataLines(f)[c[2] + 1])

\* after the call every temperature is 20, every cell not assigned from the
\* file f is Empty, or Stone on the boundary, and every assigned cell holds
\* Stone on the boundary and the type of its symbol elsewhere
C15_Cleared(f) ==
  \A c \in Cells :
    /\ temperature'[c] = 20
    /\ grid'[c] =
         IF Boundary(c) THEN "Stone"
         ELSE IF C15_Assigned(f, c)
           THEN ParticleFromSymbol(C15_DataLines(f)[c[2] + 1][c[1] + 1])
         ELSE "Empty"

\* C15 as stated: every call of LoadFromFile clears the grid first, whatever
\* the state of the file.
C15_AlwaysClears ==
  [][(call'.op = "LoadFromFile" /\ calls' # calls) => C15_Cleared(file)]_vars

\* C15 as amended: every call of LoadFromFile that opens its file clears the
\* grid first.
C15_ClearsWhenOpened ==
  [][(call'.op = "LoadFromFile" /\ calls' # calls /\ call'.n = 1)
       => C15_Cleared(file)]_vars

\* a file without data for some interior cell has been loaded after a tick:
\* the next buffer, stamped by the tick, is empty again
C15_Witness ==
  /\ call.op = "LoadFromFile" /\ call.n = 1 /\ frameCounter >= 1
  /\ nextGrid = AllEmpty
  /\ \E c \in Interior : ~C15_Assigned(file, c)

\* C16: LoadFromFile on a file that is missing or does not open returns
\* normally and changes no cell type of either buffer and no temperature.
C16_MissingFile ==
  [][(/\ call'.op = "LoadFromFile" /\ calls' # calls
      /\ (file = NoFile \/ call'.n = 0))
       => /\ grid' = grid
          /\ nextGrid' = nextGrid
          /\ temperature' = temperature
          /\ file' = file
          /\ pc' = "idle"]_vars

\* a painted grid that LoadFromFile has found no file for
C16_Witness ==
  /\ call.op = "LoadFromFile" /\ call.n = 0 /\ file = NoFile
  /\ grid[<<2, 1>>] = "Lava" /\ temperature[<<2, 1>>] = 1000

\* the scanned cells, and every assignment of draws to them
C17_Scanned == {ScanOrder[i] : i \in 1 .. Len(ScanOrder)}

RECURSIVE C17_DrawsOf(_)
C17_DrawsOf(S) ==
  IF S = {} THEN {[c \in C17_Scanned |-> NoDraw]}
  ELSE LET c == CHOOSE d \in S : TRUE
       IN {[f EXCEPT ![c] = r] :
             f \in C17_DrawsOf(S \ {c}), r \in Draws(grid[c])}

C17_Draws ==
  C17_DrawsOf({c \in C17_Scanned : Cardinality(Draws(grid[c])) > 1})

\* what each cell of the order writes, from order[i] on: a buffer of marks
\* per scanned cell that holds a type exactly where the cell has written
RECURSIVE C17_Writes(_, _, _, _)
C17_Writes(order, i, dr, t) ==
  IF i > Len(order) THEN <<>>
  ELSE LET c == order[i]
           res == ProcessCell(C12_Blank, t, c[1], c[2], dr[c])
       IN <<res.next>> \o C17_Writes(order, i + 1, dr, res.temp)

\* the next buffer in which every cell holds what its latest writer has
\* written, w[i] being the writes of the i-th cell of the order, and the
\* copy of the current buffer if nobody has written it
C17_LastWrites(w) ==
  [d \in Cells |->
     LET ws == {i \in 1 .. Len(w) : w[i][d] # "none"}
     IN IF ws = {} THEN CreateGroundNext(grid)[d]
        ELSE w[CHOOSE i \in ws : \A j \in ws : j <= i][d]]

\* two cells of the order write the same cell
C17_Collides(w) ==
  \E d \in Cells :
    Cardinality({i \in 1 .. Len(w) : w[i][d] # "none"}) > 1

\* other orders over the same cells: the scan order backwards, and the rows
\* from the top down
C17_OtherOrders ==
  {[i \in 1 .. Len(ScanOrder) |-> ScanOrder[Len(ScanOrder) + 1 - i]],
   [i \in 1 .. Len(ScanOrder) |->
      <<ScanOrder[i][1], Height - 3 - ScanOrder[i][2]>>]}

\* the next buffer the scan loops give in the order, under the draws dr
C17_NextUnder(order, dr) ==
  ScanRun(order, 1, dr, CreateGroundNext(grid), preTick).next

\* C17: when the scan loops have ended, every cell of the next buffer holds
\* the value of its latest writer in the scan order; and when they begin,
\* for all draws under which no two cells write the same cell, scanning in
\* another order gives the same next buffer.
C17_LastWriterWins ==
  /\ pc = "diffuse"
       => \E dr \in C17_Draws :
            \E w \in {C17_Writes(ScanOrder, 1, dr, preTick)} :
              nextGrid = C17_LastWrites(w)
  /\ (pc = "scan" /\ scan = ScanOrder[1])
       => \A dr \in C17_Draws :
            \A w \in {C17_Writes(ScanOrder, 1, dr, preTick)} :
              ~C17_Collides(w)
                => \A order \in C17_OtherOrders :
                     C17_NextUnder(order, dr) = C17_LastWrites(w)

\* the water of the floor row and the sand above have both written the cell
\* between them: it holds Sand, the value of the later row
C17_Witness ==
  /\ pc = "diffuse"
  /\ grid[<<1, Height - 3>>] = "Water" /\ grid[<<2, Height - 4>>] = "Sand"
  /\ grid[<<2, Height - 3>>] = "Empty"
  /\ nextGrid[<<1, Height - 3>>] = "Empty"
  /\ nextGrid[<<2, Height - 4>>] = "Empty"
  /\ nextGrid[<<2, Height - 3>>] = "Sand"

\* one unit toward 20, 20 itself staying
C19_Toward20(m) == IF m > 20 THEN m - 1 ELSE IF m < 20 THEN m + 1 ELSE 20

\* the integer quotient a / b of C++ for b > 0: the magnitude rounded down
C19_Quotient(a, b) == IF a >= 0 THEN a \div b ELSE 0 - ((0 - a) \div b)

RECURSIVE C19_Sum(_, _)
C19_Sum(f, S) ==
  IF S = {} THEN 0
  ELSE LET c == CHOOSE d \in S : TRUE IN f[c] + C19_Sum(f, S \ {c})

\* the cells of rows 1 .. Height - 2 and columns 1 .. Width - 2
C19_Processed ==
  {c \in Cells : /\ c[1] >= 1 /\ c[1] <= Width - 2
                 /\ c[2] >= 1 /\ c[2] <= Height - 2}

\* n comes before c in a pass by rows from the top, in a row from the left
C19_Before(n, c) == n[2] < c[2] \/ (n[2] = c[2] /\ n[1] < c[1])

\* one pass over the cells of the region that are not Empty in the current
\* buffer, as a relation between the temperatures before and after: such a
\* cell gets the mean of its own temperature and those of its non-Empty
\* neighbours, moved one unit toward 20; a neighbour the pass has reached
\* before counts with its new temperature; every other cell keeps its own
C19_Pass(region) ==
  \A c \in Cells :
    IF c \in region /\ grid[c] # "Empty"
      THEN LET nb == {n \in Neighbours(c) : grid[n] # "Empty"}
               seen == [n \in nb |->
                          IF n \in region /\ C19_Before(n, c)
                            THEN temperature'[n]
                          ELSE temperature[n]]
           IN temperature'[c] =
                C19_Toward20(C19_Quotient(temperature[c] + C19_Sum(seen, nb),
                                          1 + Cardinality(nb)))
    ELSE temperature'[c] = temperature[c]

\* C18: the diffusion pass of an executed tick recomputes the temperature of
\* every cell of the grid that is not Empty in the current buffer, rows
\* 0 .. Height - 1 and columns 0 .. Width - 1.
C18_EveryCell == [][TickEnds => C19_Pass(Cells)]_vars

\* C19: the diffusion pass gives every cell it processes the integer mean of
\* its own temperature and those of its non-Empty neighbours, moved one unit
\* toward 20 without crossing it, and leaves the temperature of every cell
\* that is Empty in the current buffer as it was.
C19_MeanTowardAmbient == [][TickEnds => C19_Pass(C19_Processed)]_vars

\* after a tick (the next buffer holds the layout the pass has read): a cell
\* below zero beside an Empty cell has been recomputed to a value below zero
C19_Witness ==
  /\ pc = "idle" /\ call.op = "Update" /\ frameCounter >= 1
  /\ \E c \in C19_Processed :
       /\ nextGrid[c] # "Empty"
       /\ preTick[c] < 0 /\ temperature[c] < 0 /\ temperature[c] # preTick[c]
       /\ \E n \in Neighbours(c) : nextGrid[n] = "Empty"

\* C20: once no paint, clear or load occurs any more (the inputs of a run are
\* finitely many) and the grid holds no Lava and no Fire, the repeated ticks
\* eventually bring the temperature of every non-Empty cell to 20, and it
\* stays 20 from then on.
C20_RelaxesToAmbient ==
  <>[]((\A c \in Cells : grid[c] \notin {"Lava", "Fire"})
         => \A c \in Cells : grid[c] # "Empty" => temperature[c] = 20)

\* the cell c of the grid g has a neighbour of the type p
C21_Beside(g, c, p) == \E n \in Neighbours(c) : g[n] = p

\* C21: the first rule of a type whose condition holds decides. A Lava cell
\* beside Water gets Obsidian, also below 500 degrees; a Water cell beside
\* Lava or Fire gets Steam, also below 0 degrees; a Fire cell beside Oil
\* converts no Water neighbour, is consumed exactly by its rand()%30 draw and
\* is indifferent to the rand()%50 draw of the burn-out rule.
C21_FirstRuleDecides ==
  [][/\ (pc = "scan" /\ grid[scan] = "Lava" /\ C21_Beside(grid, scan, "Water"))
          => nextGrid'[scan] = "Obsidian"
     /\ (/\ pc = "scan" /\ grid[scan] = "Water"
         /\ (C21_Beside(grid, scan, "Lava") \/ C21_Beside(grid, scan, "Fire")))
          => nextGrid'[scan] = "Steam"
     /\ (pc = "scan" /\ grid[scan] = "Fire" /\ C21_Beside(grid, scan, "Oil"))
          => /\ \A n \in Neighbours(scan) :
                  grid[n] = "Water" => nextGrid'[n] = nextGrid[n]
             /\ \A r \in Draws("Fire") :
                  LET pr == ProcessReactions(nextGrid, temperature, scan[1],
                                             scan[2], r)
                      other == [r EXCEPT !.b = ~r.b]
                  IN /\ pr.consumed = r.a
                     /\ pr.next[scan] = IF r.a THEN "Smoke" ELSE nextGrid[scan]
                     /\ ProcessCell(nextGrid, temperature, scan[1], scan[2], r)
                          = ProcessCell(nextGrid, temperature, scan[1],
                                        scan[2], other)
     /\ TickEnds
          => \A c \in Interior :
               /\ (grid[c] = "Lava" /\ C21_Beside(grid, c, "Water"))
                    => grid'[c] = "Obsidian"
               /\ (/\ grid[c] = "Water"
                   /\ (C21_Beside(grid, c, "Lava") \/ C21_Beside(grid, c, "Fire")))
                    => grid'[c] = "Steam"]_vars

\* the scan has reached a Fire cell that has both Oil and Water beside it
C21_Witness ==
  /\ pc = "scan" /\ grid[scan] = "Fire"
  /\ C21_Beside(grid, scan, "Oil") /\ C21_Beside(grid, scan, "Water")

\* the types a reaction writes onto the reacting cell of the type p
C22_Becomes(p) ==
  CASE p = "Lava" -> {"Obsidian", "Stone"}
    [] p = "Water" -> {"Steam", "Ice"}
    [] p = "Ice" -> {"Water"}
    [] p = "Steam" -> {"Water"}
    [] p = "Fire" -> {"Smoke"}
    [] p = "Acid" -> {"Empty"}
    [] p = "Oil" -> {"Fire"}
    [] OTHER -> {}

\* C22: for a scanned non-Empty cell the reaction check runs first. It
\* reports 'consumed' only together with a new type for the cell itself in
\* the next buffer, and then the step of the scan writes nothing more (no
\* movement, no temperature); when it reports 'not consumed' it has left the
\* cell's own entry alone, and the step is completed by the movement rule of
\* the cell's type run on what the reaction left (ignited or dissolved
\* neighbours included).
C22_ReactionThenMovement ==
  [][(pc = "scan" /\ grid[scan] # "Empty")
       => /\ \A r \in Draws(grid[scan]) :
               \A pr \in {ProcessReactions(nextGrid, temperature, scan[1],
                                           scan[2], r)} :
                 IF pr.consumed
                   THEN pr.next[scan] \in C22_Becomes(grid[scan])
                 ELSE pr.next[scan] = nextGrid[scan]
          /\ \E r \in Draws(grid[scan]) :
               \E pr \in {ProcessReactions(nextGrid, temperature, scan[1],
                                           scan[2], r)} :
                 IF pr.consumed
                   THEN nextGrid' = pr.next /\ temperature' = temperature
                 ELSE [next |-> nextGrid', temp |-> temperature']
                        = Move(grid[scan], pr.next, temperature, scan[1],
                               scan[2], r)]_vars

\* after a tick (the next buffer holds the grid of before): a fire beside
\* oil has ignited the oil and has then risen into the Empty cell above it
C22_Witness ==
  /\ pc = "idle" /\ call.op = "Update" /\ frameCounter >= 1
  /\ \E c \in Interior :
       /\ c[2] >= 1
       /\ nextGrid[c] = "Fire" /\ nextGrid[<<c[1], c[2] - 1>>] = "Empty"
       /\ \E n \in Neighbours(c) : nextGrid[n] = "Oil" /\ grid[n] = "Fire"
       /\ grid[c] = "Empty" /\ grid[<<c[1], c[2] - 1>>] = "Fire"

\* the i-th neighbour of the cell c in the order the acid examines them
C23_At(c, i) == <<c[1] + NeighborOrder[i][1], c[2] + NeighborOrder[i][2]>>

\* the neighbours of c, by their place in that order, that are Sand or Ice
\* and not protected boundary cells (side walls, the two floor rows)
C23_Matches(c) ==
  {i \in 1 .. 8 : /\ C23_At(c, i) \in Cells
                  /\ ~Boundary(C23_At(c, i))
                  /\ grid[C23_At(c, i)] \in {"Sand", "Ice"}}

\* C23: when an Acid cell is scanned, every Sand or Ice neighbour that is not
\* a protected boundary cell, the top row included, is written Empty in the
\* next buffer, up to the neighbour at which the acid is consumed (if it is):
\* the later ones are left as they were and the acid's cell gets Empty.
C23_DissolvesInEveryRow ==
  [][(pc = "scan" /\ grid[scan] = "Acid")
       => \E last \in C23_Matches(scan) \cup {9} :
            /\ \A i \in C23_Matches(scan) :
                 IF i <= last THEN nextGrid'[C23_At(scan, i)] = "Empty"
                 ELSE nextGrid'[C23_At(scan, i)] = nextGrid[C23_At(scan, i)]
            /\ last # 9 => nextGrid'[scan] = "Empty"]_vars

\* the liquid at c has fallen onto the Steam cell below it in this tick
C24_FellOntoSteam(c) ==
  /\ grid[c] \in Liquids
  /\ grid[<<c[1], c[2] + 1>>] = "Steam"
  /\ nextGrid[<<c[1], c[2] + 1>>] = grid[c]

\* C24: at the end of the scan of a tick (the current buffer still holds the
\* grid of before, the next buffer the result), in a grid without Lava and
\* Fire, where no reaction makes steam: a liquid that has fallen onto a Steam
\* cell has left Steam where it was, and the displaced steam is nowhere else,
\* so there are no more Steam cells than before and no fewer cells of the
\* liquid.
C24_SwapWithSteam ==
  (pc = "diffuse" /\ \A d \in Cells : grid[d] \notin {"Lava", "Fire"})
    => \A c \in Interior :
         C24_FellOntoSteam(c)
           => /\ nextGrid[c] = "Steam"
              /\ Count(nextGrid, "Steam") <= Count(grid, "Steam")
              /\ Count(nextGrid, grid[c]) >= Count(grid, grid[c])

C25_Rock == {"Stone", "Obsidian"}

C26_AllNeighboursConverted ==
  [][TickEnds
       => \A c \in Interior :
            (C21_Beside(grid, c, "Lava") \/ C21_Beside(grid, c, "Fire"))
              => /\ grid[c] = "Water" => grid'[c] = "Steam"
                 /\ grid[c] = "Oil" => grid'[c] = "Fire"]_vars

\* after a tick (the next buffer holds the grid of before): a lava or fire
\* cell had two cells of Water, or two of Oil, beside it and both are
\* converted
C26_Witness ==
  /\ pc = "idle" /\ call.op = "Update" /\ frameCounter >= 1
  /\ \E c \in Interior :
       /\ nextGrid[c] \in {"Lava", "Fire"}
       /\ \E n1, n2 \in Neighbours(c) :
            /\ n1 # n2
            /\ \/ /\ nextGrid[n1] = "Water" /\ nextGrid[n2] = "Water"
                  /\ grid[n1] = "Steam" /\ grid[n2] = "Steam"
               \/ /\ nextGrid[n1] = "Oil" /\ nextGrid[n2] = "Oil"
                  /\ grid[n1] = "Fire" /\ grid[n2] = "Fire"

\* the interior of the grid g holds Sand and Empty cells only
C27_SandOnly(g) == \A c \in Interior : g[c] \in {"Sand", "Empty"}

\* the cell d is one of the three cells a sand at o can move to
C27_Reaches(o, d) == d[2] = o[2] + 1 /\ d[1] - o[1] \in -1 .. 1

\* the sand cells of before that are Empty after the tick, and the Empty
\* cells of before that hold Sand after it
C27_Left == {o \in Cells : grid[o] = "Sand" /\ grid'[o] = "Empty"}

C27_Arrived == {d \in Cells : grid[d] = "Empty" /\ grid'[d] = "Sand"}

\* C27: in a grid of Sand and Empty cells, while the scan runs a Sand that
\* has arrived in a cell of the next buffer is not overwritten; across the
\* tick the number of Sand cells does not grow, and it shrinks only when two
\* sand cells that have both left their places could both reach one and the
\* same cell that was Empty and holds Sand afterwards.
C27_SandNeverGrows ==
  [][/\ (pc = "scan" /\ C27_SandOnly(grid))
          => \A d \in Cells :
               (grid[d] = "Empty" /\ nextGrid[d] = "Sand")
                 => nextGrid'[d] = "Sand"
     /\ (TickEnds /\ C27_SandOnly(grid))
          => /\ Count(grid', "Sand") <= Count(grid, "Sand")
             /\ Count(grid', "Sand") =
                  Count(grid, "Sand") - Cardinality(C27_Left)
                    + Cardinality(C27_Arrived)
             /\ \A d \in C27_Arrived :
                  \E o \in C27_Left : C27_Reaches(o, d)
             /\ Count(grid', "Sand") < Count(grid, "Sand")
                  => \E d \in C27_Arrived :
                       \E o1, o2 \in C27_Left :
                         /\ o1 # o2
                         /\ C27_Reaches(o1, d) /\ C27_Reaches(o2, d)]_vars

\* after a tick (the next buffer holds the grid of before) of a grid of Sand
\* and Empty cells: two sand cells have taken the same cell, one is lost
C27_Witness ==
  /\ pc = "idle" /\ call.op = "Update" /\ frameCounter >= 1
  /\ C27_SandOnly(nextGrid)
  /\ Count(grid, "Sand") = Count(nextGrid, "Sand") - 1

\* the values the code stamps
C28_Stamped == {-10, 20, 100, 800, 1000}

C28_InRange(t) == \A c \in Cells : t[c] >= -10 /\ t[c] <= 1000

\* the values the pass averages for the cell c: its own temperature and those
\* of its non-Empty neighbours, a neighbour the pass has reached before with
\* its new temperature
C28_Averaged(c) ==
  {temperature[c]}
    \cup {IF n \in C19_Processed /\ C19_Before(n, c) THEN temperature'[n]
          ELSE temperature[n] :
            n \in {m \in Neighbours(c) : grid[m] # "Empty"}}

\* C28: under Update, AddParticle, Clear and LoadFromFile every temperature
\* lies in -10 .. 1000. Every step but the diffusion pass changes a
\* temperature only to one of -10, 20, 100, 800 and 1000, and the diffusion
\* pass gives a cell a value between the least and the greatest of the values
\* it averages and 20.
C28_TemperatureRange ==
  [][/\ C28_InRange(temperature) /\ C28_InRange(temperature')
     /\ ~TickEnds
          => \A c \in Cells :
               temperature'[c] # temperature[c]
                 => temperature'[c] \in C28_Stamped
     /\ TickEnds
          => \A c \in Cells :
               temperature'[c] # temperature[c]
                 => /\ \E v \in C28_Averaged(c) \cup {20} : v <= temperature'[c]
                    /\ \E v \in C28_Averaged(c) \cup {20} : v >= temperature'[c]
    ]_vars

\* after a tick: a cell at 1000 degrees, a cell below zero and a cell with a
\* diffused value that no stamp writes
C28_Witness ==
  /\ pc = "idle" /\ call.op = "Update" /\ frameCounter >= 1
  /\ \E c, d, e \in Cells :
       /\ temperature[c] = 1000
       /\ temperature[d] < 0
       /\ temperature[e] \notin C28_Stamped /\ temperature[e] > 100

\* no Sand cell of the current buffer can move: the cell below it and the
\* two cells diagonally below it are occupied
C29_Settled ==
  \A c \in Interior :
    grid[c] = "Sand"
      => \A dx \in {-1, 0, 1} : grid[<<c[1] + dx, c[2] + 1>>] # "Empty"

\* C29: a grid of Sand and Empty cells settles. Once the finitely many
\* paints of a run are over, the ticks reach after finitely many steps a
\* layout in which no Sand cell can move and stay in it for ever, whatever
\* the direction draws; and a tick that starts from such a layout ends with
\* the same layout.
C29_SandSettles ==
  /\ <>[](C29_Settled /\ (pc = "diffuse" => nextGrid = grid))
  /\ [][(TickEnds /\ C29_Settled) => grid' = grid]_vars

\* sand painted in the upper rows has come to rest in the bottom row after
\* at least two ticks, with a pile on top of it
C29_Witness ==
  /\ pc = "idle" /\ call.op = "Update" /\ C29_Settled
  /\ \A c \in Interior : c[2] = 0 => grid[c] = "Empty"
  /\ \E c \in Interior : c[2] = Height - 4 /\ grid[c] = "Sand"
  /\ Count(grid, "Sand") >= 3
====
